---- MODULE Spec2Model ----
(***************************************************************************)
(* Payment-request approval workflow (VC-LM): the record store of          *)
(* database.py and the admin / production views of app.py that drive it.   *)
(*                                                                         *)
(* The store is the payment_requests table.  Every browser session runs    *)
(* the Streamlit script: it first reads the table (get_payment_requests)   *)
(* and then, for a clicked button, calls one database function with the    *)
(* id and status of the row it has read.  Sessions run in separate         *)
(* threads, so other sessions' writes may fall between a session's read    *)
(* and its write.                                                          *)
(***************************************************************************)
EXTENDS Integers, Sequences, FiniteSets, TLC

\* ---------------------------------------------------------------- bounds
MaxRequests == 1
NumSessions == 2
MaxTime     == 2
\* Rows of the table in the single-session specification.
MaxRows     == 3
\* Ids the users table may hand out, and rows of the providers table.
MaxUserId    == 9
MaxProviders == 3
\* Rows of the table in the lifecycle specification of the single session.
MaxSoloRows  == 2

\* ------------------------------------------------------------ SQL values
\* SQL NULL / Python None for a text column.
NULL == "NULL"
\* SQL NULL for a TIMESTAMP column; the clock starts after it.
NoTime == 0

Sessions == 1..NumSessions

\* Values the forms can submit.
Amounts      == {100, 200}
ProviderNames == {"", "Proveedor XYZ"}
NpNumbers    == {"", "0042"}
FormAmounts  == Amounts \cup {0}
\* st.date_input: no date, or a date sent as its ISO text.
AgreedDates  == {NULL, "2026-11-02", "2026-11-05"}
NoteTexts    == {"", "ok"}
RejectReasons == {"", "Falta factura"}
ProofPaths   == {NULL, "uploads/proof"}

\* The five statuses named in the schema comment.
STATUSES == {"pendiente", "aprobado_cfo", "en_proceso", "completado", "rechazado"}

VARIABLES
    payment_requests,   \* the table: a sequence of rows, row i has id i
    now,                \* CURRENT_TIMESTAMP
    session,            \* per browser session: the rows its script run has read
    last,               \* the last database call and what it returned
    users,              \* the users table and its AUTOINCREMENT counter
    providers           \* the providers table: a sequence of rows, row i has id i

vars == <<payment_requests, now, session, last, users, providers>>

\* --------------------------------------------------------- SQL operators
\* a || b : NULL if either operand is NULL.
SqlConcat(a, b) == IF a = NULL \/ b = NULL THEN NULL ELSE a \o b

\* COALESCE(a, b)
COALESCE(a, b) == IF a # NULL THEN a ELSE b

\* Python's  x or y  on an optional string.
PyOr(x, y) == IF x = NULL \/ x = "" THEN y ELSE x

\* The set of ids for which  WHERE id = ?  matches a row.
RowIds(table) == 1..Len(table)

\* ------------------------------------------------------------ database.py
\* init_database: the default users inserted into an empty users table,
\* with the ids that follow the counter.
default_users ==
    << [ name |-> "Usuario Producción 1", team |-> "produccion" ],
       [ name |-> "Usuario Producción 2", team |-> "produccion" ],
       [ name |-> "Usuario Admin 1",      team |-> "admin" ],
       [ name |-> "Usuario Admin 2",      team |-> "admin" ] >>

SeedUsers(u) ==
    IF u.rows = {}
    THEN [ rows   |-> { [ id   |-> u.lastid + k,
                          name |-> default_users[k].name,
                          team |-> default_users[k].team ] : k \in DOMAIN default_users },
           lastid |-> u.lastid + Len(default_users) ]
    ELSE u

\* The users table of a new database.
NoUsers == [ rows |-> {}, lastid |-> 0 ]

\* get_users(team)
get_users(u, team) == { r \in u.rows : r.team = team }

\* add_user accepting a name that is already in the table.
add_user_noUnique(u, name, team) ==
    [ users |-> [ rows   |-> u.rows \cup { [ id |-> u.lastid + 1, name |-> name, team |-> team ] },
                  lastid |-> u.lastid + 1 ],
      ret   |-> TRUE ]

\* add_user: the INSERT, refused by UNIQUE(name).
add_user(u, name, team) ==
    IF \E r \in u.rows : r.name = name
    THEN [ users |-> u, ret |-> FALSE ]
    ELSE [ users |-> [ rows   |-> u.rows \cup { [ id |-> u.lastid + 1, name |-> name, team |-> team ] },
                       lastid |-> u.lastid + 1 ],
           ret   |-> TRUE ]

\* delete_user: the DELETE and its rowcount.
delete_user(u, user_id) ==
    [ users |-> [ u EXCEPT !.rows = { r \in @ : r.id # user_id } ],
      ret   |-> \E r \in u.rows : r.id = user_id ]

\* add_provider treating the empty text as no provider_id.
add_provider_blankIsNull(table, name, provider_id, payment_condition) ==
    IF provider_id \notin {NULL, ""} /\ \E j \in DOMAIN table : table[j].provider_id = provider_id
    THEN [ table |-> table, ret |-> FALSE ]
    ELSE [ table |-> Append(table, [ id |-> Len(table) + 1, provider_id |-> provider_id,
                                     name |-> name, payment_condition |-> payment_condition ]),
           ret   |-> TRUE ]

\* add_provider: the INSERT, refused by UNIQUE(provider_id); SQL NULLs are
\* distinct from each other, the empty text is a value like any other.
add_provider(table, name, provider_id, payment_condition) ==
    IF provider_id # NULL /\ \E j \in DOMAIN table : table[j].provider_id = provider_id
    THEN [ table |-> table, ret |-> FALSE ]
    ELSE [ table |-> Append(table, [ id |-> Len(table) + 1, provider_id |-> provider_id,
                                     name |-> name, payment_condition |-> payment_condition ]),
           ret   |-> TRUE ]

\* get_provider_by_name: whether a row has the name.
get_provider_by_name(table, name) == \E j \in DOMAIN table : table[j].name = name

\* create_payment_request: the INSERT with the column defaults.
NewRow(table, data, t) ==
    [ id                 |-> Len(table) + 1,
      provider_name      |-> data.provider_name,
      np_number          |-> data.np_number,
      amount             |-> data.amount,
      payment_type       |-> data.payment_type,
      payment_method     |-> data.payment_method,
      agreed_payment_date |-> data.agreed_payment_date,
      requested_by       |-> data.requested_by,
      status             |-> "pendiente",
      cfo_approved       |-> 0,
      cfo_approved_by    |-> NULL,
      cfo_approved_at    |-> NoTime,
      admin_notes        |-> NULL,
      payment_proof_path |-> NULL,
      created_at         |-> t,
      updated_at         |-> t,
      completed_at       |-> NoTime ]

\* create_payment_request returning the id that was last before the INSERT.
create_payment_request_staleId(table, data, t) ==
    [ table |-> Append(table, NewRow(table, data, t)),
      ret   |-> Len(table) ]

\* create_payment_request: the INSERT and cursor.lastrowid.
create_payment_request(table, data, t) ==
    [ table |-> Append(table, NewRow(table, data, t)),
      ret   |-> Len(table) + 1 ]

\* get_payment_request: the row, or None.
NoRow == [ id |-> 0 ]
get_payment_request(table, request_id) ==
    IF request_id \in RowIds(table) THEN table[request_id] ELSE NoRow

\* update_payment_status binding admin_notes even when it is not supplied.
UpdatedRow_clobber(row, status, admin_notes, payment_proof_path, t) ==
    [ row EXCEPT
        !.status             = status,
        !.updated_at         = t,
        !.admin_notes        = admin_notes,
        !.payment_proof_path = IF payment_proof_path # NULL
                               THEN payment_proof_path ELSE @,
        !.completed_at       = IF status = "completado" THEN t ELSE @ ]

\* update_payment_status: SET status, updated_at and the optional fields.
UpdatedRow(row, status, admin_notes, payment_proof_path, t) ==
    [ row EXCEPT
        !.status             = status,
        !.updated_at         = t,
        !.admin_notes        = IF admin_notes # NULL THEN admin_notes ELSE @,
        !.payment_proof_path = IF payment_proof_path # NULL
                               THEN payment_proof_path ELSE @,
        !.completed_at       = IF status = "completado" THEN t ELSE @ ]

\* update_payment_status reporting success whatever the rowcount is.
update_payment_status_alwaysTrue(table, request_id, status, admin_notes, payment_proof_path, t) ==
    IF request_id \in RowIds(table)
    THEN [ table |-> [ table EXCEPT ![request_id] =
                         UpdatedRow(@, status, admin_notes, payment_proof_path, t) ],
           ret   |-> TRUE ]
    ELSE [ table |-> table, ret |-> TRUE ]

\* update_payment_status: the UPDATE and its rowcount.
update_payment_status(table, request_id, status, admin_notes, payment_proof_path, t) ==
    IF request_id \in RowIds(table)
    THEN [ table |-> [ table EXCEPT ![request_id] =
                         UpdatedRow(@, status, admin_notes, payment_proof_path, t) ],
           ret   |-> TRUE ]
    ELSE [ table |-> table, ret |-> FALSE ]

\* approve_cfo writing a status name that is not one of the five.
ApprovedRow_typo(row, approved_by, t) ==
    [ row EXCEPT
        !.cfo_approved    = 1,
        !.cfo_approved_by = approved_by,
        !.cfo_approved_at = t,
        !.status          = "aprobado",
        !.updated_at      = t ]

\* approve_cfo without the cfo_approved_at assignment.
ApprovedRow_noStamp(row, approved_by, t) ==
    [ row EXCEPT
        !.cfo_approved    = 1,
        !.cfo_approved_by = approved_by,
        !.status          = "aprobado_cfo",
        !.updated_at      = t ]

\* approve_cfo: the SET clause.
ApprovedRow(row, approved_by, t) ==
    [ row EXCEPT
        !.cfo_approved    = 1,
        !.cfo_approved_by = approved_by,
        !.cfo_approved_at = t,
        !.status          = "aprobado_cfo",
        !.updated_at      = t ]

\* approve_cfo with  AND status = 'pendiente'  in its WHERE clause.
approve_cfo_guarded(table, request_id, approved_by, t) ==
    IF request_id \in RowIds(table) /\ table[request_id].status = "pendiente"
    THEN [ table |-> [ table EXCEPT ![request_id] = ApprovedRow(@, approved_by, t) ],
           ret   |-> TRUE ]
    ELSE [ table |-> table, ret |-> FALSE ]

\* approve_cfo: the UPDATE and its rowcount.
approve_cfo(table, request_id, approved_by, t) ==
    IF request_id \in RowIds(table)
    THEN [ table |-> [ table EXCEPT ![request_id] = ApprovedRow(@, approved_by, t) ],
           ret   |-> TRUE ]
    ELSE [ table |-> table, ret |-> FALSE ]

\* reject_cfo: the text bound to the second placeholder.
RejectText(reason) ==
    "Rechazado por CFO: " \o PyOr(reason, "Sin motivo especificado")

\* reject_cfo without the updated_at assignment.
RejectedRow_noTouch(row, approved_by, reason, t) ==
    [ row EXCEPT
        !.cfo_approved    = 0,
        !.cfo_approved_by = approved_by,
        !.cfo_approved_at = t,
        !.status          = "rechazado",
        !.admin_notes     = SqlConcat(COALESCE(SqlConcat(@, " | "), ""),
                                      RejectText(reason)) ]

\* reject_cfo: the SET clause.
RejectedRow(row, approved_by, reason, t) ==
    [ row EXCEPT
        !.cfo_approved    = 0,
        !.cfo_approved_by = approved_by,
        !.cfo_approved_at = t,
        !.status          = "rechazado",
        !.admin_notes     = SqlConcat(COALESCE(SqlConcat(@, " | "), ""),
                                      RejectText(reason)),
        !.updated_at      = t ]

\* reject_cfo with an UPDATE that has no WHERE clause.
reject_cfo_noWhere(table, request_id, approved_by, reason, t) ==
    [ table |-> [ j \in RowIds(table) |-> RejectedRow(table[j], approved_by, reason, t) ],
      ret   |-> table # << >> ]

reject_cfo(table, request_id, approved_by, reason, t) ==
    IF request_id \in RowIds(table)
    THEN [ table |-> [ table EXCEPT ![request_id] =
                         RejectedRow(@, approved_by, reason, t) ],
           ret   |-> TRUE ]
    ELSE [ table |-> table, ret |-> FALSE ]

\* get_payment_requests(): every row.  Of a row the admin view uses id and
\* status to decide which buttons exist and what they send.
ViewRow(row) == [ id |-> row.id, status |-> row.status ]
get_payment_requests(table) == [ i \in RowIds(table) |-> ViewRow(table[i]) ]

\* ------------------------------------------------------------------ state
NoCall == [ op |-> "none", id |-> 0, ret |-> FALSE ]

Call(op, request_id, ret) == [ op |-> op, id |-> request_id, ret |-> ret ]

\* A session between script runs holds no rows.
Idle == [ loaded |-> FALSE, requests |-> <<>> ]

Init ==
    /\ payment_requests = <<>>
    /\ now = 1
    /\ session = [ s \in Sessions |-> Idle ]
    /\ last = NoCall
    /\ users = SeedUsers(NoUsers)
    /\ providers = <<>>

\* CURRENT_TIMESTAMP advances.
Tick ==
    /\ now < MaxTime
    /\ now' = now + 1
    /\ UNCHANGED <<payment_requests, session, last, users, providers>>

\* Production view: what the form holds when it is submitted.
\* The first entry of the provider selectbox: the name and the id are typed.
NoSelection == "-- Seleccionar proveedor existente --"

Forms ==
    [ selected_provider : {NoSelection}, provider_name : ProviderNames,
      provider_id : {""}, np_number : NpNumbers,
      amount : FormAmounts, agreed_date : AgreedDates ]

\* The validation without its test of the amount.
FormValid_noAmount(form) ==
    /\ form.provider_name # ""
    /\ form.np_number # ""

\* Production view: the if / elif chain in front of the creation.
FormValid(form) ==
    /\ form.provider_name # ""
    /\ form.np_number # ""
    /\ ~(form.amount <= 0)

\* Production view: request_data.
request_data(form) ==
    [ provider_name       |-> form.provider_name,
      np_number           |-> form.np_number,
      amount              |-> form.amount,
      payment_type        |-> "total",
      payment_method      |-> "transferencia",
      agreed_payment_date |-> form.agreed_date,
      requested_by        |-> "Usuario Producción 1" ]

\* Production view: the form is submitted; it is inserted when it passes
\* the validation and an error is shown otherwise.
\* The requesting user is one of get_users("produccion"); a provider typed
\* in by name is added to the providers after the creation.
SubmitTo(form, capacity) ==
    /\ \E u \in get_users(users, "produccion") : u.name = request_data(form).requested_by
    /\ IF FormValid(form)
       THEN /\ Len(payment_requests) < capacity
            /\ LET r == create_payment_request(payment_requests, request_data(form), now)
               IN  /\ payment_requests' = r.table
                   /\ last' = Call("create", r.ret, TRUE)
            /\ IF form.selected_provider = NoSelection /\ form.provider_name # ""
               THEN providers' = add_provider(providers, form.provider_name,
                                              form.provider_id, NULL).table
               ELSE providers' = providers
       ELSE /\ payment_requests' = payment_requests
            /\ last' = Call("create", 0, FALSE)
            /\ providers' = providers
    /\ UNCHANGED <<now, session, users>>

Submit(form) == SubmitTo(form, MaxRequests)

\* Admin view: a script run reads the table.
Load(s) ==
    /\ session' = [ session EXCEPT ![s] =
                      [ loaded |-> TRUE,
                        requests |-> get_payment_requests(payment_requests) ] ]
    /\ session[s] # session'[s]
    /\ UNCHANGED <<payment_requests, now, last, users, providers>>

\* The row of the session's script run for request i, if it has one.
Shown(s, i) == session[s].loaded /\ i \in DOMAIN session[s].requests
current_status(s, i) == session[s].requests[i].status

\* The script run ends (st.rerun() or end of script) once a button is handled.
Done(s) == session' = [ session EXCEPT ![s] = Idle ]

\* Admin view, "Aprobar".
Approve(s, i) ==
    /\ Shown(s, i)
    /\ current_status(s, i) = "pendiente"
    /\ LET r == approve_cfo(payment_requests, i, "CFO", now)
       IN  /\ payment_requests' = r.table
           /\ last' = Call("approve", i, r.ret)
    /\ Done(s)
    /\ UNCHANGED <<now, users, providers>>

\* Admin view, "Rechazar".
Reject(s, i, reject_reason) ==
    /\ Shown(s, i)
    /\ current_status(s, i) = "pendiente"
    /\ LET r == reject_cfo(payment_requests, i, "CFO", reject_reason, now)
       IN  /\ payment_requests' = r.table
           /\ last' = Call("reject", i, r.ret)
    /\ Done(s)
    /\ UNCHANGED <<now, users, providers>>

\* Admin view, "Marcar En Proceso".
Advance(s, i) ==
    /\ Shown(s, i)
    /\ current_status(s, i) = "aprobado_cfo"
    /\ LET r == update_payment_status(payment_requests, i, "en_proceso", NULL, NULL, now)
       IN  /\ payment_requests' = r.table
           /\ last' = Call("advance", i, r.ret)
    /\ Done(s)
    /\ UNCHANGED <<now, users, providers>>

\* Admin view, "Marcar Completado".
Complete(s, i, proof_path) ==
    /\ Shown(s, i)
    /\ current_status(s, i) = "en_proceso"
    /\ LET r == update_payment_status(payment_requests, i, "completado", NULL, proof_path, now)
       IN  /\ payment_requests' = r.table
           /\ last' = Call("complete", i, r.ret)
    /\ Done(s)
    /\ UNCHANGED <<now, users, providers>>

\* Admin view, "Guardar Notas" with the text of the notes area.
SaveNotes(s, i, admin_notes) ==
    /\ Shown(s, i)
    /\ LET r == update_payment_status(payment_requests, i, current_status(s, i),
                                      admin_notes, NULL, now)
       IN  /\ payment_requests' = r.table
           /\ last' = Call("annotate", i, r.ret)
    /\ Done(s)
    /\ UNCHANGED <<now, users, providers>>

Next ==
    \/ Tick
    \/ \E form \in Forms : Submit(form)
    \/ \E s \in Sessions : Load(s)
    \/ \E s \in Sessions, i \in 1..MaxRequests : Approve(s, i)
    \/ \E s \in Sessions, i \in 1..MaxRequests, reason \in RejectReasons : Reject(s, i, reason)
    \/ \E s \in Sessions, i \in 1..MaxRequests : Advance(s, i)
    \/ \E s \in Sessions, i \in 1..MaxRequests, p \in ProofPaths : Complete(s, i, p)
    \/ \E s \in Sessions, i \in 1..MaxRequests, t \in NoteTexts : SaveNotes(s, i, t)

Spec == Init /\ [][Next]_vars

\* ------------------------------------------------- single-session store
\* A database made by an earlier version of the program (init_database
\* migrates such files) may hold a request whose date is not ISO text.
LegacyDate == "05/11/2026"
LegacyTable ==
    create_payment_request(<<>>,
        [ request_data([ selected_provider |-> NoSelection,
                         provider_name |-> "Proveedor XYZ", provider_id |-> "",
                         np_number |-> "0042", amount |-> 100, agreed_date |-> NULL ])
          EXCEPT !.agreed_payment_date = LegacyDate ], 1).table

\* The session starts at any time after the legacy request was created.
StoreInit ==
    /\ payment_requests \in {<<>>, LegacyTable}
    /\ now \in 1..MaxTime
    /\ session = [ s \in Sessions |-> Idle ]
    /\ last = NoCall
    /\ users = SeedUsers(NoUsers)
    /\ providers = <<>>

\* Production view: a form that passes the validation is submitted.
StoreSubmit(form) == FormValid(form) /\ SubmitTo(form, MaxRows)

\* Admin view of a single session: the script run reads row i and handles
\* the clicked button before anything else happens.
SoloApprove(i) ==
    /\ i \in RowIds(payment_requests)
    /\ payment_requests[i].status = "pendiente"
    /\ LET r == approve_cfo(payment_requests, i, "CFO", now)
       IN  payment_requests' = r.table /\ last' = Call("approve", i, r.ret)
    /\ UNCHANGED <<now, session, users, providers>>

SoloReject(i) ==
    /\ i \in RowIds(payment_requests)
    /\ payment_requests[i].status = "pendiente"
    /\ LET r == reject_cfo(payment_requests, i, "CFO", "", now)
       IN  payment_requests' = r.table /\ last' = Call("reject", i, r.ret)
    /\ UNCHANGED <<now, session, users, providers>>

\* Admin view of the single session, "Marcar En Proceso" offered whatever
\* the status is.
SoloAdvance_ungated(i) ==
    /\ i \in RowIds(payment_requests)
    /\ LET r == update_payment_status(payment_requests, i, "en_proceso", NULL, NULL, now)
       IN  payment_requests' = r.table /\ last' = Call("advance", i, r.ret)
    /\ UNCHANGED <<now, session, users, providers>>

SoloAdvance(i) ==
    /\ i \in RowIds(payment_requests)
    /\ payment_requests[i].status = "aprobado_cfo"
    /\ LET r == update_payment_status(payment_requests, i, "en_proceso", NULL, NULL, now)
       IN  payment_requests' = r.table /\ last' = Call("advance", i, r.ret)
    /\ UNCHANGED <<now, session, users, providers>>

SoloComplete(i) ==
    /\ i \in RowIds(payment_requests)
    /\ payment_requests[i].status = "en_proceso"
    /\ LET r == update_payment_status(payment_requests, i, "completado", NULL, NULL, now)
       IN  payment_requests' = r.table /\ last' = Call("complete", i, r.ret)
    /\ UNCHANGED <<now, session, users, providers>>

\* A direct call of a database function with an id that has no row.
AbsentIds == (1..(MaxRows + 1)) \ RowIds(payment_requests)

LifecycleOps == {"approve", "reject", "advance", "complete", "annotate"}

CallAbsent(op, request_id) ==
    /\ request_id \in AbsentIds
    /\ LET r == CASE op = "approve"  -> approve_cfo(payment_requests, request_id, "CFO", now)
                  [] op = "reject"   -> reject_cfo(payment_requests, request_id, "CFO", "", now)
                  [] op = "advance"  -> update_payment_status(payment_requests, request_id,
                                                             "en_proceso", NULL, NULL, now)
                  [] op = "complete" -> update_payment_status(payment_requests, request_id,
                                                             "completado", NULL, "uploads/proof", now)
                  [] op = "annotate" -> update_payment_status(payment_requests, request_id,
                                                             "pendiente", "ok", NULL, now)
       IN  payment_requests' = r.table /\ last' = Call(op, request_id, r.ret)
    /\ UNCHANGED <<now, session, users, providers>>

StoreNext ==
    \/ \E form \in Forms : StoreSubmit(form)
    \/ \E i \in 1..MaxRows : SoloApprove(i)
    \/ \E i \in 1..MaxRows : SoloReject(i)
    \/ \E i \in 1..MaxRows : SoloAdvance(i)
    \/ \E i \in 1..MaxRows : SoloComplete(i)
    \/ \E op \in LifecycleOps, id \in 1..(MaxRows + 1) : CallAbsent(op, id)

SpecStore == StoreInit /\ [][StoreNext]_vars

\* The single session with the buttons of the two views only.
ViewsNext ==
    \/ \E form \in Forms : StoreSubmit(form)
    \/ \E i \in 1..MaxRows : SoloApprove(i)
    \/ \E i \in 1..MaxRows : SoloReject(i)
    \/ \E i \in 1..MaxRows : SoloAdvance(i)
    \/ \E i \in 1..MaxRows : SoloComplete(i)

SpecViews == StoreInit /\ [][ViewsNext]_vars

\* Admin view of the single session, "Guardar Notas": the status sent is
\* the one just read.
SoloSaveNotes(i, admin_notes) ==
    /\ i \in RowIds(payment_requests)
    /\ LET r == update_payment_status(payment_requests, i, payment_requests[i].status,
                                      admin_notes, NULL, now)
       IN  payment_requests' = r.table /\ last' = Call("annotate", i, r.ret)
    /\ UNCHANGED <<now, session, users, providers>>

\* Production view of the lifecycle specification.
SoloSubmit(form) == FormValid(form) /\ SubmitTo(form, MaxSoloRows)

\* The single session with every button of the admin view; the clock runs.
SoloNext ==
    \/ Tick
    \/ \E form \in Forms : SoloSubmit(form)
    \/ \E i \in 1..MaxSoloRows : SoloApprove(i)
    \/ \E i \in 1..MaxSoloRows : SoloReject(i)
    \/ \E i \in 1..MaxSoloRows : SoloAdvance(i)
    \/ \E i \in 1..MaxSoloRows : SoloComplete(i)
    \/ \E i \in 1..MaxSoloRows, t \in NoteTexts : SoloSaveNotes(i, t)

SpecSolo == Init /\ [][SoloNext]_vars

\* ------------------------------------------------------- settings view
UserNames == {"", "Usuario Producción 1", "Ana"}
Teams     == {"produccion", "admin"}

\* init_database at the start of a script run finds the users table empty.
InitDatabase ==
    /\ users.rows = {}
    /\ users.lastid + Len(default_users) <= MaxUserId
    /\ users' = SeedUsers(users)
    /\ last' = Call("init_database", 0, TRUE)
    /\ UNCHANGED <<payment_requests, now, session, providers>>

\* Settings view, "Agregar Usuario".
AddUser(new_user_name, new_user_team) ==
    /\ users.lastid < MaxUserId
    /\ IF new_user_name # ""
       THEN LET r == add_user(users, new_user_name, new_user_team)
            IN  users' = r.users /\ last' = Call("add_user", 0, r.ret)
       ELSE users' = users /\ last' = Call("add_user", 0, FALSE)
    /\ UNCHANGED <<payment_requests, now, session, providers>>

\* Settings view, the delete button of a listed user; the list may be that
\* of a page read before another session deleted the user.
DeleteUser(user_id) ==
    /\ LET r == delete_user(users, user_id)
       IN  users' = r.users /\ last' = Call("delete_user", user_id, r.ret)
    /\ UNCHANGED <<payment_requests, now, session, providers>>

UsersNext ==
    \/ InitDatabase
    \/ \E name \in UserNames, team \in Teams : AddUser(name, team)
    \/ \E id \in 1..MaxUserId : DeleteUser(id)

SpecUsers == Init /\ [][UsersNext]_vars

TypedNames        == {"", "Proveedor XYZ", "Proveedor ABC"}
TypedProviderIds  == {"", "PROV-001"}
TypedConditions   == {"", "30 días"}

\* Python's  x if x else None  on a text input.
OrNone(x) == IF x = "" THEN NULL ELSE x

\* Settings view, "Agregar Proveedor".
AddProviderForm(new_prov_name, new_prov_id, new_prov_payment_condition) ==
    /\ Len(providers) < MaxProviders
    /\ IF new_prov_name # ""
       THEN LET r == add_provider(providers, new_prov_name, OrNone(new_prov_id),
                                  OrNone(new_prov_payment_condition))
            IN  providers' = r.table /\ last' = Call("add_provider", 0, r.ret)
       ELSE providers' = providers /\ last' = Call("add_provider", 0, FALSE)
    /\ UNCHANGED <<payment_requests, now, session, users>>

\* get_providers(): the names the provider selectbox offers.
get_providers(table) == { table[j].name : j \in DOMAIN table }

\* Production view: the forms whose provider is typed in or selected.
ProviderForms ==
    [ selected_provider : {NoSelection} \cup (TypedNames \ {""}),
      provider_name : TypedNames, provider_id : TypedProviderIds,
      np_number : {"0042"}, amount : {100}, agreed_date : {NULL} ]

\* Production view: a form is submitted; with a provider of the selectbox
\* the name is the selected one and the id input is disabled.
ProviderSubmit(form) ==
    /\ Len(providers) < MaxProviders
    /\ form.selected_provider # NoSelection =>
          /\ form.selected_provider \in get_providers(providers)
          /\ form.provider_name = form.selected_provider
          /\ form.provider_id = ""
    /\ SubmitTo(form, MaxProviders)

ProvidersNext ==
    \/ \E name \in TypedNames, id \in TypedProviderIds, c \in TypedConditions :
          AddProviderForm(name, id, c)
    \/ \E form \in ProviderForms : ProviderSubmit(form)

SpecProviders == Init /\ [][ProvidersNext]_vars

\* ------------------------------------------------------------ aggregates
\* get_stats: one step of GROUP BY status over a row; COUNT(*) and
\* SUM(amount) of the row's group grow, a new group starts at the row.
StatsStep_overwrite(acc, row) ==
    IF row.status \in DOMAIN acc
    THEN [ acc EXCEPT ![row.status] =
             [ count |-> @.count + 1, total |-> row.amount ] ]
    ELSE [ st \in DOMAIN acc \cup {row.status} |->
             IF st = row.status THEN [ count |-> 1, total |-> row.amount ]
             ELSE acc[st] ]

StatsStep(acc, row) ==
    IF row.status \in DOMAIN acc
    THEN [ acc EXCEPT ![row.status] =
             [ count |-> @.count + 1, total |-> @.total + row.amount ] ]
    ELSE [ st \in DOMAIN acc \cup {row.status} |->
             IF st = row.status THEN [ count |-> 1, total |-> row.amount ]
             ELSE acc[st] ]

RECURSIVE GroupByStatus(_, _)
GroupByStatus(table, n) ==
    IF n = 0 THEN [ st \in {} |-> [ count |-> 0, total |-> 0 ] ]
    ELSE StatsStep(GroupByStatus(table, n - 1), table[n])

\* Python's  x or 0  on a number.
OrZero(x) == IF x = 0 THEN 0 ELSE x

\* get_stats: the dict built from the grouped rows.
get_stats(table) ==
    LET g == GroupByStatus(table, Len(table))
    IN  [ st \in DOMAIN g |-> [ count |-> g[st].count, total |-> OrZero(g[st].total) ] ]

\* datetime.strptime(text, '%Y-%m-%d').date(): the dates of the ISO texts
\* in use, as <<year, month, day>>; any other text raises ValueError.
IsoDates ==
    ("2026-11-02" :> <<2026, 11, 2>>) @@ ("2026-11-05" :> <<2026, 11, 5>>)

strptime(text) ==
    IF text \in DOMAIN IsoDates
    THEN [ ok |-> TRUE, date |-> IsoDates[text] ]
    ELSE [ ok |-> FALSE, date |-> <<>> ]

\* date.__lt__ and date.__le__
DateLT(a, b) ==
    \/ a[1] < b[1]
    \/ a[1] = b[1] /\ a[2] < b[2]
    \/ a[1] = b[1] /\ a[2] = b[2] /\ a[3] < b[3]
DateLE(a, b) == a = b \/ DateLT(a, b)

\* Truth value of an optional text:  if p['agreed_payment_date'].
Truthy(text) == text # NULL /\ text # ""

\* get_payment_requests(): the orders ORDER BY created_at DESC may return
\* the rows in, as sequences of ids; rows of one second come in any order.
ResultOrders(table) ==
    { o \in [ RowIds(table) -> RowIds(table) ] :
        /\ \A j, k \in RowIds(table) : j # k => o[j] # o[k]
        /\ \A j, k \in RowIds(table) :
              j < k => table[o[j]].created_at >= table[o[k]].created_at }

all_requests(table, order) == [ k \in RowIds(table) |-> table[order[k]] ]

\* Cashflow view: active_payments.
IsActive(r) == r.status \in {"pendiente", "en_proceso"}
active_payments(rows) == SelectSeq(rows, IsActive)

\* Cashflow view: the loop that fills with_date and without_date.
HasDate(p) == Truthy(p.agreed_payment_date) /\ strptime(p.agreed_payment_date).ok
\* The loop with every payment appended to without_date.
HasNoDate_always(p) == TRUE
HasNoDate(p) == ~HasDate(p)
WithPaymentDate(p) == [ p |-> p, payment_date |-> strptime(p.agreed_payment_date).date ]

with_date(active) ==
    LET dated == SelectSeq(active, HasDate)
    IN  [ k \in 1..Len(dated) |-> WithPaymentDate(dated[k]) ]
\* The undated list without the payments whose date does not parse.
without_date_nullOnly(active) ==
    LET IsNull(p) == ~Truthy(p.agreed_payment_date)
    IN  SelectSeq(active, IsNull)

without_date(active) == SelectSeq(active, HasNoDate)

\* sorted(with_date, key=payment_date) that leaves the list as it is.
sorted_by_date_unsorted(l) == l

\* sorted(with_date, key=payment_date): stable, ascending.
RECURSIVE InsertByDate(_, _)
InsertByDate(sortedl, e) ==
    IF sortedl = <<>> THEN <<e>>
    ELSE IF DateLT(e.payment_date, sortedl[Len(sortedl)].payment_date)
         THEN Append(InsertByDate(SubSeq(sortedl, 1, Len(sortedl) - 1), e),
                     sortedl[Len(sortedl)])
         ELSE Append(sortedl, e)

RECURSIVE SortPrefix(_, _)
SortPrefix(l, n) ==
    IF n = 0 THEN <<>> ELSE InsertByDate(SortPrefix(l, n - 1), l[n])

sorted_by_date(l) == SortPrefix(l, Len(l))

\* Cashflow view: the loop that fills cumulative_data, after n payments.
RECURSIVE CumulativeLoop(_, _)
CumulativeLoop(sorted_payments, n) ==
    IF n = 0 THEN [ cumulative_data |-> <<>>, running_total |-> 0 ]
    ELSE LET before == CumulativeLoop(sorted_payments, n - 1)
             p == sorted_payments[n]
             running_total == before.running_total + p.p.amount
         IN  [ cumulative_data |->
                 Append(before.cumulative_data,
                        [ Fecha     |-> p.payment_date,
                          Pago      |-> p.p.amount,
                          Acumulado |-> running_total,
                          Proveedor |-> p.p.provider_name ]),
               running_total |-> running_total ]

cumulative_data(table, order) ==
    LET sorted_payments ==
            sorted_by_date(with_date(active_payments(all_requests(table, order))))
    IN  CumulativeLoop(sorted_payments, Len(sorted_payments)).cumulative_data

\* ------------------------------------------------------------ dates
\* date.today() on the days the views are opened, as <<year, month, day>>.
Todays == { <<2026, 10, 28>>, <<2026, 10, 29>>, <<2026, 11, 2>>, <<2026, 11, 3>> }

IsLeap(y) == (y % 4 = 0 /\ y % 100 # 0) \/ y % 400 = 0

DaysInMonth(y, m) ==
    IF m = 2 THEN (IF IsLeap(y) THEN 29 ELSE 28)
    ELSE IF m \in {4, 6, 9, 11} THEN 30 ELSE 31

\* The days of the year before the first of month m.
DaysBeforeMonth(y, m) ==
    << 0, 31, 59, 90, 120, 151, 181, 212, 243, 273, 304, 334 >>[m]
       + (IF m > 2 /\ IsLeap(y) THEN 1 ELSE 0)

\* date.toordinal(): the day number in the proleptic Gregorian calendar;
\* d + timedelta(days=n) is the date whose day number is n more, and
\* (a - b).days is the difference of the day numbers.
toordinal(d) ==
    LET y1 == d[1] - 1
    IN  y1 * 365 + (y1 \div 4) - (y1 \div 100) + (y1 \div 400)
          + DaysBeforeMonth(d[1], d[2]) + d[3]

\* d + relativedelta(months=i): the day is cut to the length of the month.
relativedelta_months(d, i) ==
    LET t == (d[2] - 1) + i
        y == d[1] + (t \div 12)
        m == (t % 12) + 1
    IN  << y, m, IF d[3] <= DaysInMonth(y, m) THEN d[3] ELSE DaysInMonth(y, m) >>

\* sum(...) over a list of numbers, up to its n-th element.
RECURSIVE PySum(_, _)
PySum(nums, n) == IF n = 0 THEN 0 ELSE PySum(nums, n - 1) + nums[n]

\* sum(p['amount'] for p in ...) over rows, and over rows with payment_date.
SumRowAmounts(rows) == PySum([ k \in DOMAIN rows |-> rows[k].amount ], Len(rows))
SumDatedAmounts(l) == PySum([ k \in DOMAIN l |-> l[k].p.amount ], Len(l))

\* get_payment_requests(status) without its WHERE clause.
get_payment_requests_where_noFilter(table, status, order) == all_requests(table, order)

\* get_payment_requests(status): the rows in one of the orders of ORDER BY
\* created_at DESC, restricted by WHERE status = ? when a status is given.
get_payment_requests_where(table, status, order) ==
    LET Matches(r) == ~Truthy(status) \/ r.status = status
    IN  SelectSeq(all_requests(table, order), Matches)

\* ------------------------------------------------------- calendar view
IsScheduled(r) == Truthy(r.agreed_payment_date) /\ IsActive(r)
scheduled_payments(rows) == SelectSeq(rows, IsScheduled)

\* Calendar view: the loop that fills month_payments.
month_payments(scheduled, selected_month, selected_year) ==
    LET InMonth(p) ==
            /\ strptime(p.agreed_payment_date).ok
            /\ strptime(p.agreed_payment_date).date[2] = selected_month
            /\ strptime(p.agreed_payment_date).date[1] = selected_year
        kept == SelectSeq(scheduled, InMonth)
    IN  [ k \in 1..Len(kept) |-> WithPaymentDate(kept[k]) ]

\* Calendar view: one step of the loop that fills payments_by_date, with
\* every payment replacing the list of its date.
ByDateStep_replace(acc, p) ==
    LET d == p.payment_date
    IN  [ x \in DOMAIN acc \cup {d} |-> IF x = d THEN <<p>> ELSE acc[x] ]

\* Calendar view: one step of the loop that fills payments_by_date.
ByDateStep(acc, p) ==
    LET d == p.payment_date
    IN  IF d \notin DOMAIN acc
        THEN [ x \in DOMAIN acc \cup {d} |-> IF x = d THEN <<p>> ELSE acc[x] ]
        ELSE [ acc EXCEPT ![d] = Append(@, p) ]

RECURSIVE payments_by_date(_, _)
payments_by_date(month_list, n) ==
    IF n = 0 THEN << >>
    ELSE ByDateStep(payments_by_date(month_list, n - 1), month_list[n])

\* Calendar view: what the cell of current_date shows.
day_cell(by_date, current_date) ==
    LET day_payments == IF current_date \in DOMAIN by_date
                        THEN by_date[current_date] ELSE << >>
    IN  [ total_day |-> SumDatedAmounts(day_payments), count |-> Len(day_payments) ]

\* Calendar view for a selected month and year.
calendar_view(table, order, selected_month, selected_year) ==
    LET mp == month_payments(scheduled_payments(all_requests(table, order)),
                             selected_month, selected_year)
    IN  [ month_payments   |-> mp,
          payments_by_date |-> payments_by_date(mp, Len(mp)),
          total_month      |-> SumDatedAmounts(mp) ]

\* Calendar view, "Próximos 7 días": the window of the upcoming payments.
WindowDays == 7

\* The window without its last day.
InWindow_exclusive(today, payment_date) ==
    /\ toordinal(today) <= toordinal(payment_date)
    /\ toordinal(payment_date) < toordinal(today) + WindowDays

\* today <= payment_date <= today + timedelta(days=7)
InWindow(today, payment_date) ==
    /\ toordinal(today) <= toordinal(payment_date)
    /\ toordinal(payment_date) <= toordinal(today) + WindowDays

\* The urgency with the red mark up to three days.
urgency_highAt3(days_until) ==
    IF days_until <= 3 THEN "high" ELSE IF days_until <= 4 THEN "medium" ELSE "low"

\* The mark of an upcoming payment: red (high), orange (medium), yellow (low).
urgency(days_until) ==
    IF days_until <= 2 THEN "high" ELSE IF days_until <= 4 THEN "medium" ELSE "low"

\* Calendar view: the upcoming payments as they are listed.
upcoming(table, order, today) ==
    LET Soon(p) == /\ strptime(p.agreed_payment_date).ok
                   /\ InWindow(today, strptime(p.agreed_payment_date).date)
        kept == SelectSeq(scheduled_payments(all_requests(table, order)), Soon)
        upcoming_sorted == sorted_by_date([ k \in 1..Len(kept) |-> WithPaymentDate(kept[k]) ])
    IN  [ k \in 1..Len(upcoming_sorted) |->
            LET days_until == toordinal(upcoming_sorted[k].payment_date) - toordinal(today)
            IN  [ p            |-> upcoming_sorted[k].p,
                  payment_date |-> upcoming_sorted[k].payment_date,
                  days_until   |-> days_until,
                  urgency      |-> urgency(days_until) ] ]

\* ------------------------------------------------------- cashflow view
\* Cashflow view: the dated and the undated active payments, and the totals
\* of the summary.
cashflow_with_date(table, order) == with_date(active_payments(all_requests(table, order)))
cashflow_without_date(table, order) == without_date(active_payments(all_requests(table, order)))
total_pending(table, order) == SumRowAmounts(active_payments(all_requests(table, order)))
total_scheduled(table, order) == SumDatedAmounts(cashflow_with_date(table, order))
total_unscheduled(table, order) == SumRowAmounts(cashflow_without_date(table, order))

Weeks  == 8
Months == 6

\* Weekly projection: week i (from 0) as day numbers, and its payments.
week_start(today, i) == toordinal(today) + 7 * i
week_end(today, i) == week_start(today, i) + 6
week_payments(dated, today, i) ==
    LET InWeek(p) == /\ week_start(today, i) <= toordinal(p.payment_date)
                     /\ toordinal(p.payment_date) <= week_end(today, i)
    IN  SelectSeq(dated, InWeek)

weeks_data(dated, today) ==
    [ k \in 1..Weeks |->
        [ Monto |-> SumDatedAmounts(week_payments(dated, today, k - 1)),
          Pagos |-> Len(week_payments(dated, today, k - 1)) ] ]

\* Monthly projection: month i (from 0) as day numbers, and its payments.
month_start(today, i) ==
    LET month_date == relativedelta_months(today, i)
    IN  << month_date[1], month_date[2], 1 >>
month_end(today, i) == toordinal(relativedelta_months(month_start(today, i), 1)) - 1
month_bucket_payments(dated, today, i) ==
    LET InBucket(p) == /\ toordinal(month_start(today, i)) <= toordinal(p.payment_date)
                       /\ toordinal(p.payment_date) <= month_end(today, i)
    IN  SelectSeq(dated, InBucket)

months_data(dated, today) ==
    [ k \in 1..Months |->
        [ Monto |-> SumDatedAmounts(month_bucket_payments(dated, today, k - 1)),
          Pagos |-> Len(month_bucket_payments(dated, today, k - 1)) ] ]

\* ------------------------------------------------------------ properties
Row(i) == payment_requests[i]

\* A CFO button of session s on request i is handled in this step.
CfoStep(s, i) == Approve(s, i) \/ \E reason \in RejectReasons : Reject(s, i, reason)

\* C1: approve and reject never both succeed on one request: a CFO action
\* (approve or reject) on a request whose stored status is no longer
\* pendiente returns failure and leaves the record unchanged.
C1_CfoActionsExclusive ==
    [][ \A s \in Sessions, i \in RowIds(payment_requests) :
          (CfoStep(s, i) /\ Row(i).status # "pendiente")
             => (last'.ret = FALSE /\ payment_requests'[i] = Row(i)) ]_vars

\* C2: approve is valid only from pendiente: an approve on a request whose
\* stored status is anything else fails and changes no field of the request.
C2_ApproveOnlyFromPendiente ==
    [][ \A s \in Sessions, i \in RowIds(payment_requests) :
          (Approve(s, i) /\ Row(i).status # "pendiente")
             => (~last'.ret /\ payment_requests' = payment_requests) ]_vars

\* C3: complete never succeeds unless the stored status at the moment of
\* the write is en_proceso.
C3_CompleteOnlyFromEnProceso ==
    [][ \A s \in Sessions, i \in RowIds(payment_requests), p \in ProofPaths :
          (Complete(s, i, p) /\ last'.ret) => Row(i).status = "en_proceso" ]_vars

\* C4: rechazado and completado are terminal: once a request's stored status
\* is one of them, no step changes it.
TERMINAL == {"rechazado", "completado"}
C4_TerminalStatuses ==
    [][ \A i \in RowIds(payment_requests) :
          Row(i).status \in TERMINAL => payment_requests'[i].status = Row(i).status ]_vars

\* C5: every change of a stored status follows one of the four edges
\* pendiente->aprobado_cfo, pendiente->rechazado, aprobado_cfo->en_proceso,
\* en_proceso->completado.
EDGES == { <<"pendiente", "aprobado_cfo">>, <<"pendiente", "rechazado">>,
           <<"aprobado_cfo", "en_proceso">>, <<"en_proceso", "completado">> }
C5_OnlyFourEdges ==
    [][ \A i \in RowIds(payment_requests) :
          \/ payment_requests'[i].status = Row(i).status
          \/ <<Row(i).status, payment_requests'[i].status>> \in EDGES ]_vars

\* C6: for every request, completed_at is non-null if and only if status is
\* completado.
C6_CompletedAtIffCompletado ==
    \A i \in RowIds(payment_requests) :
        (Row(i).completed_at # NoTime) <=> (Row(i).status = "completado")

\* C7: every stored request has one of the five statuses.
C7_StatusInRange ==
    \A i \in RowIds(payment_requests) : Row(i).status \in STATUSES

\* C7 witness: a request went through the whole lifecycle and its status was
\* then written once more by "Guardar Notas".
C7_Witness ==
    \E i \in RowIds(payment_requests) :
        /\ last = Call("annotate", i, TRUE)
        /\ Row(i).status = "completado"
        /\ Row(i).cfo_approved = 1

\* C8: annotate ("Guardar Notas") does not change the stored status of the
\* request, whatever other sessions did since the session read it.
C8_AnnotateKeepsStatus ==
    [][ \A s \in Sessions, i \in RowIds(payment_requests), t \in NoteTexts :
          SaveNotes(s, i, t) => payment_requests'[i].status = Row(i).status ]_vars

\* C9: annotate leaves completed_at, cfo_approved, cfo_approved_by and
\* cfo_approved_at unchanged in every state, completado included, and sets
\* admin_notes to exactly the supplied text.
C9_AnnotateFrame ==
    [][ \A s \in Sessions, i \in RowIds(payment_requests), t \in NoteTexts :
          SaveNotes(s, i, t) =>
             /\ payment_requests'[i].completed_at    = Row(i).completed_at
             /\ payment_requests'[i].cfo_approved    = Row(i).cfo_approved
             /\ payment_requests'[i].cfo_approved_by = Row(i).cfo_approved_by
             /\ payment_requests'[i].cfo_approved_at = Row(i).cfo_approved_at
             /\ payment_requests'[i].admin_notes     = t ]_vars

\* C10: reject sets admin_notes to the prior notes followed by " | " and the
\* rejection text when the prior notes are non-empty, and to the rejection
\* text alone, without separator, when they are empty (NULL or "").
C10_RejectNotes ==
    [][ \A s \in Sessions, i \in RowIds(payment_requests), reason \in RejectReasons :
          Reject(s, i, reason) =>
             payment_requests'[i].admin_notes =
                IF Row(i).admin_notes \notin {NULL, ""}
                THEN Row(i).admin_notes \o " | " \o RejectText(reason)
                ELSE RejectText(reason) ]_vars

\* C11: cfo_approved_by and cfo_approved_at are both null or both non-null,
\* and they are written only in a step that takes the request from pendiente
\* to aprobado_cfo or to rechazado.
C11_CfoFieldsOnlyFromPendiente ==
    [][ \A i \in RowIds(payment_requests) :
          /\ (payment_requests'[i].cfo_approved_by = NULL)
                <=> (payment_requests'[i].cfo_approved_at = NoTime)
          /\ \A s \in Sessions :
                CfoStep(s, i) =>
                   /\ Row(i).status = "pendiente"
                   /\ payment_requests'[i].status \in {"aprobado_cfo", "rechazado"}
          /\ (\A s \in Sessions : ~CfoStep(s, i)) =>
                   /\ payment_requests'[i].cfo_approved_by = Row(i).cfo_approved_by
                   /\ payment_requests'[i].cfo_approved_at = Row(i).cfo_approved_at ]_vars

\* C12: approve on a request whose stored status is pendiente returns
\* success and leaves status = aprobado_cfo, cfo_approved = 1,
\* cfo_approved_by = approver, cfo_approved_at = updated_at = time of the
\* call; admin_notes, payment_proof_path and completed_at keep their values.
C12_ApproveEffect ==
    [][ \A s \in Sessions, i \in RowIds(payment_requests) :
          (Approve(s, i) /\ Row(i).status = "pendiente") =>
             /\ last'.ret = TRUE
             /\ payment_requests'[i].status             = "aprobado_cfo"
             /\ payment_requests'[i].cfo_approved       = 1
             /\ payment_requests'[i].cfo_approved_by    = "CFO"
             /\ payment_requests'[i].cfo_approved_at    = now
             /\ payment_requests'[i].updated_at         = now
             /\ payment_requests'[i].admin_notes        = Row(i).admin_notes
             /\ payment_requests'[i].payment_proof_path = Row(i).payment_proof_path
             /\ payment_requests'[i].completed_at       = Row(i).completed_at ]_vars

\* C12 witness: a request created at time 1 and annotated was approved at
\* time 2 while pendiente, and shows the approval with its notes kept.
C12_Witness ==
    \E i \in RowIds(payment_requests) :
        /\ last = Call("approve", i, TRUE)
        /\ Row(i).status = "aprobado_cfo"
        /\ Row(i).created_at = 1
        /\ Row(i).cfo_approved_at = 2
        /\ Row(i).updated_at = 2
        /\ Row(i).admin_notes = "ok"
        /\ Row(i).completed_at = NoTime

\* What one call update_payment_status(i, status, admin_notes, proof) must
\* leave in row i, field by field.
UpdateEffect(i, status, admin_notes, payment_proof_path) ==
    /\ last'.ret = TRUE
    /\ payment_requests'[i].status = status
    /\ payment_requests'[i].updated_at = now
    /\ payment_requests'[i].admin_notes =
          IF admin_notes = NULL THEN Row(i).admin_notes ELSE admin_notes
    /\ payment_requests'[i].payment_proof_path =
          IF payment_proof_path = NULL THEN Row(i).payment_proof_path
          ELSE payment_proof_path
    /\ payment_requests'[i].completed_at =
          IF status = "completado" THEN now ELSE Row(i).completed_at

\* C16: update_payment_status on an existing request overwrites admin_notes
\* only when it is supplied and payment_proof_path only when it is supplied,
\* always refreshes updated_at, and writes completed_at in that call if and
\* only if the new status is completado.
C16_PartialUpdate ==
    [][ \A s \in Sessions, i \in RowIds(payment_requests) :
          /\ Advance(s, i) => UpdateEffect(i, "en_proceso", NULL, NULL)
          /\ \A p \in ProofPaths :
                Complete(s, i, p) => UpdateEffect(i, "completado", NULL, p)
          /\ \A t \in NoteTexts :
                SaveNotes(s, i, t) => UpdateEffect(i, current_status(s, i), t, NULL) ]_vars

\* C16 witness: a request annotated at time 1 was completed with a proof at
\* time 2: the notes are kept, the proof and completed_at are written.
C16_Witness ==
    \E i \in RowIds(payment_requests) :
        /\ last = Call("complete", i, TRUE)
        /\ Row(i).status = "completado"
        /\ Row(i).admin_notes = "ok"
        /\ Row(i).payment_proof_path = "uploads/proof"
        /\ Row(i).created_at = 1
        /\ Row(i).updated_at = 2
        /\ Row(i).completed_at = 2

\* A button of session s that writes request i is handled in this step.
MutationStep(s, i) ==
    \/ CfoStep(s, i)
    \/ Advance(s, i)
    \/ \E p \in ProofPaths : Complete(s, i, p)
    \/ \E t \in NoteTexts : SaveNotes(s, i, t)

\* C17: updated_at never decreases, is never earlier than created_at, and is
\* set to the time of the call by every successful mutation (approve,
\* reject, advance, complete, annotate).
C17_UpdatedAtMonotone ==
    [][ \A i \in RowIds(payment_requests) :
          /\ payment_requests'[i].updated_at >= Row(i).updated_at
          /\ payment_requests'[i].updated_at >= payment_requests'[i].created_at
          /\ \A s \in Sessions :
                (MutationStep(s, i) /\ last'.ret) =>
                    payment_requests'[i].updated_at = now ]_vars

\* C17 witness: a request created at time 1 was rejected at time 2.
C17_Witness ==
    \E i \in RowIds(payment_requests) :
        /\ last = Call("reject", i, TRUE)
        /\ Row(i).status = "rechazado"
        /\ Row(i).created_at = 1
        /\ Row(i).updated_at = 2

\* C18: a transition issued from a session's snapshot succeeds and the
\* stored status after it is the one it writes, whatever the stored status
\* was: of two sessions that read the same pendiente request, both writes
\* succeed and the later one decides the status.
C18_LastWriteWins ==
    [][ \A s \in Sessions, i \in RowIds(payment_requests) :
          /\ Approve(s, i) =>
                (last'.ret /\ payment_requests'[i].status = "aprobado_cfo")
          /\ (\E r \in RejectReasons : Reject(s, i, r)) =>
                (last'.ret /\ payment_requests'[i].status = "rechazado")
          /\ Advance(s, i) =>
                (last'.ret /\ payment_requests'[i].status = "en_proceso")
          /\ (\E p \in ProofPaths : Complete(s, i, p)) =>
                (last'.ret /\ payment_requests'[i].status = "completado") ]_vars

\* C18 witness: the request was rejected by one session and then approved
\* by another from its pendiente snapshot: the rejection text is in the
\* notes and the status is the later write's.
C18_Witness ==
    \E i \in RowIds(payment_requests) :
        /\ last = Call("approve", i, TRUE)
        /\ Row(i).status = "aprobado_cfo"
        /\ Row(i).admin_notes = RejectText("Falta factura")
        /\ Row(i).cfo_approved = 1

\* A required field of the form is missing or its amount is not positive.
Missing(form) ==
    \/ form.provider_name \in {NULL, ""}
    \/ form.np_number \in {NULL, ""}
    \/ form.amount <= 0

\* C15: a creation with a required field missing or amount <= 0 fails and
\* adds no record (a step either fails and adds nothing, or is no creation
\* from such a form); so every stored request has amount > 0.
C15_CreateValidates ==
    [][ /\ \/ (last'.ret = FALSE /\ payment_requests' = payment_requests)
           \/ \A form \in Forms : Missing(form) => ~Submit(form)
        /\ \A i \in RowIds(payment_requests') :
             /\ payment_requests'[i].amount > 0
             /\ payment_requests'[i].provider_name \notin {NULL, ""}
             /\ payment_requests'[i].np_number \notin {NULL, ""}
             /\ payment_requests'[i].payment_type # NULL
             /\ payment_requests'[i].payment_method # NULL
             /\ payment_requests'[i].requested_by # NULL ]_vars

\* C15 witness: a form with amount 0 was submitted after a request had been
\* stored; the submission failed and the store holds only the valid request.
C15_Witness ==
    /\ last = Call("create", 0, FALSE)
    /\ Len(payment_requests) = 1
    /\ payment_requests[1].amount = 100

\* C13: every lifecycle operation applied to an id that is not in the store
\* returns failure and leaves the whole store unchanged, and
\* get_payment_request on such an id returns the not-found value.
C13_AbsentIdFails ==
    [][ \A op \in LifecycleOps, id \in 1..(MaxRows + 1) :
          CallAbsent(op, id) =>
             /\ last'.ret = FALSE
             /\ payment_requests' = payment_requests
             /\ get_payment_request(payment_requests', id) = NoRow ]_vars

\* C13 witness: with requests 1 and 2 stored, a completion of id 3 failed.
C13_Witness ==
    /\ last = Call("complete", 3, FALSE)
    /\ Len(payment_requests) = 2
    /\ payment_requests[2].status = "en_proceso"

\* The row a successful creation from the form must add.
CreatedRow(form, id) ==
    [ id                 |-> id,
      provider_name      |-> form.provider_name,
      np_number          |-> form.np_number,
      amount             |-> form.amount,
      payment_type       |-> "total",
      payment_method     |-> "transferencia",
      agreed_payment_date |-> form.agreed_date,
      requested_by       |-> "Usuario Producción 1",
      status             |-> "pendiente",
      cfo_approved       |-> 0,
      cfo_approved_by    |-> NULL,
      cfo_approved_at    |-> NoTime,
      admin_notes        |-> NULL,
      payment_proof_path |-> NULL,
      created_at         |-> now,
      updated_at         |-> now,
      completed_at       |-> NoTime ]

\* C14: a creation with valid fields adds exactly one request, with status
\* pendiente, created_at = updated_at, cfo_approved false and null
\* cfo_approved_by, cfo_approved_at, completed_at and payment_proof_path, and
\* returns an id distinct from and greater than every id returned before;
\* the first creation on an empty store returns 1.
C14_CreateEffect ==
    [][ last'.op = "create" =>
          \A form \in Forms :
             StoreSubmit(form) =>
                /\ last'.ret = TRUE
                /\ payment_requests' =
                      Append(payment_requests, CreatedRow(form, last'.id))
                /\ \A j \in RowIds(payment_requests) :
                      payment_requests[j].id < last'.id
                /\ payment_requests = <<>> => last'.id = 1 ]_vars

\* C14 witness: a third request was created, after the first two, and got
\* id 3.
C14_Witness ==
    /\ last = Call("create", 3, TRUE)
    /\ Len(payment_requests) = 3
    /\ payment_requests[3].id = 3
    /\ payment_requests[3].status = "pendiente"
    /\ payment_requests[1].status = "rechazado"

\* Sum of the amounts of the requests with the given ids.
RECURSIVE SumAmounts(_)
SumAmounts(ids) ==
    IF ids = {} THEN 0
    ELSE LET i == CHOOSE j \in ids : TRUE
         IN  Row(i).amount + SumAmounts(ids \ {i})

WithStatus(st) == { i \in RowIds(payment_requests) : Row(i).status = st }

RECURSIVE SumTotals(_, _)
SumTotals(stats, keys) ==
    IF keys = {} THEN 0
    ELSE LET k == CHOOSE x \in keys : TRUE
         IN  stats[k].total + SumTotals(stats, keys \ {k})

\* C19: get_stats returns one bucket per status that has at least one
\* request and none for the others; each bucket's count and total are the
\* number and the sum of amounts of the requests in that status; the totals
\* of all buckets add up to the sum of amount over all requests.
C19_Stats ==
    LET stats == get_stats(payment_requests)
    IN  /\ DOMAIN stats = { st \in STATUSES : WithStatus(st) # {} }
        /\ \A st \in DOMAIN stats :
              /\ stats[st].count = Cardinality(WithStatus(st))
              /\ stats[st].total = SumAmounts(WithStatus(st))
        /\ SumTotals(stats, DOMAIN stats) = SumAmounts(RowIds(payment_requests))

\* C19 witness: two pendiente requests of 100 and 200 and one completed
\* request of 200.
C19_Witness ==
    /\ Len(payment_requests) = 3
    /\ payment_requests[1].status = "pendiente" /\ payment_requests[1].amount = 100
    /\ payment_requests[2].status = "completado" /\ payment_requests[2].amount = 200
    /\ payment_requests[3].status = "pendiente" /\ payment_requests[3].amount = 200
    /\ get_stats(payment_requests) =
          ("pendiente" :> [ count |-> 2, total |-> 300 ])
          @@ ("completado" :> [ count |-> 1, total |-> 200 ])

\* The active requests whose agreed_payment_date is a parsable date.
DatedActiveIds ==
    { i \in RowIds(payment_requests) :
        /\ Row(i).status \in {"pendiente", "en_proceso"}
        /\ Row(i).agreed_payment_date \in DOMAIN IsoDates }

\* The entries of cum are the requests ids, each once.
ListsExactly(cum, ids) ==
    \E f \in [ 1..Len(cum) -> ids ] :
        /\ \A j, k \in 1..Len(cum) : j # k => f[j] # f[k]
        /\ \A i \in ids : \E k \in 1..Len(cum) : f[k] = i
        /\ \A k \in 1..Len(cum) :
              /\ cum[k].Fecha = IsoDates[Row(f[k]).agreed_payment_date]
              /\ cum[k].Pago = Row(f[k]).amount
              /\ cum[k].Proveedor = Row(f[k]).provider_name

\* C20: the cumulative cashflow lists exactly the pendiente / en_proceso
\* requests with a parsable agreed_payment_date, in ascending date order,
\* with running_total[i] = running_total[i-1] + amount[i]; the running
\* totals do not decrease and the last equals the sum of the amounts of the
\* dated active requests.
C20_CumulativeCashflow ==
    \A order \in ResultOrders(payment_requests) :
        LET cum == cumulative_data(payment_requests, order)
            n   == Len(cum)
        IN  /\ ListsExactly(cum, DatedActiveIds)
            /\ \A k \in 1..(n - 1) : DateLE(cum[k].Fecha, cum[k + 1].Fecha)
            /\ n > 0 => cum[1].Acumulado = cum[1].Pago
            /\ \A k \in 2..n : cum[k].Acumulado = cum[k - 1].Acumulado + cum[k].Pago
            /\ \A k \in 1..(n - 1) : cum[k].Acumulado <= cum[k + 1].Acumulado
            /\ n > 0 => cum[n].Acumulado = SumAmounts(DatedActiveIds)

\* C20 witness: a legacy request without a parsable date, a request of 100
\* due on 5 November and a later one of 200 due on 2 November: the
\* cumulative cashflow is 200 on the 2nd and 300 on the 5th.
C20_Witness ==
    /\ Len(payment_requests) = 3
    /\ payment_requests[1].agreed_payment_date = LegacyDate
    /\ payment_requests[1].status = "pendiente"
    /\ payment_requests[2].status = "en_proceso"
    /\ payment_requests[3].status = "pendiente"
    /\ \E order \in ResultOrders(payment_requests) :
          cumulative_data(payment_requests, order) =
             << [ Fecha |-> <<2026, 11, 2>>, Pago |-> 200, Acumulado |-> 200,
                  Proveedor |-> "Proveedor XYZ" ],
                [ Fecha |-> <<2026, 11, 5>>, Pago |-> 100, Acumulado |-> 300,
                  Proveedor |-> "Proveedor XYZ" ] >>

\* C30: in every reachable state, under any interleaving of sessions, a
\* request whose status is en_proceso or completado has cfo_approved true
\* and a non-null cfo_approved_by.
C30_ProcessedImpliesApproved ==
    \A i \in RowIds(payment_requests) :
        Row(i).status \in {"en_proceso", "completado"} =>
            /\ Row(i).cfo_approved = 1
            /\ Row(i).cfo_approved_by # NULL

UserIds(u) == { r.id : r \in u.rows }
UsersNamed(u, name) == { r \in u.rows : r.name = name }

\* C27: no two users ever share a name; add_user fails and leaves the users
\* unchanged when the name exists and otherwise adds the user and succeeds;
\* delete_user removes exactly the user with the id and returns true when it
\* exists, and returns false leaving the users unchanged when it does not.
C27_UsersUniqueNames ==
    [][ /\ \A r1, r2 \in users'.rows : r1.name = r2.name => r1 = r2
        /\ \A name \in UserNames \ {""}, team \in Teams :
              AddUser(name, team) =>
                 IF UsersNamed(users, name) # {}
                 THEN last'.ret = FALSE /\ users' = users
                 ELSE /\ last'.ret = TRUE
                      /\ \E r \in users'.rows :
                            /\ r.name = name /\ r.team = team
                            /\ r.id \notin UserIds(users)
                            /\ users'.rows = users.rows \cup {r}
        /\ \A id \in 1..MaxUserId :
              DeleteUser(id) =>
                 IF id \in UserIds(users)
                 THEN /\ last'.ret = TRUE
                      /\ users'.rows = { r \in users.rows : r.id # id }
                      /\ Cardinality(users'.rows) = Cardinality(users.rows) - 1
                 ELSE last'.ret = FALSE /\ users' = users ]_vars

\* C27 witness: Ana was added, "Usuario Admin 2" was deleted, and a second
\* add of Ana has just failed.
C27_Witness ==
    /\ last = Call("add_user", 0, FALSE)
    /\ Cardinality(UsersNamed(users, "Ana")) = 1
    /\ UsersNamed(users, "Usuario Admin 2") = {}
    /\ Cardinality(users.rows) = 4

NonNullProviderIds(table) == { table[j].provider_id : j \in DOMAIN table } \ {NULL}

\* What add_provider must do to the providers when called with the values.
AddProviderEffect(name, provider_id, payment_condition) ==
    IF provider_id # NULL /\ provider_id \in NonNullProviderIds(providers)
    THEN providers' = providers
    ELSE /\ Len(providers') = Len(providers) + 1
         /\ SubSeq(providers', 1, Len(providers)) = providers
         /\ providers'[Len(providers')].name = name
         /\ providers'[Len(providers')].provider_id = provider_id
         /\ providers'[Len(providers')].payment_condition = payment_condition

\* C28: add_provider fails, leaving the providers unchanged, exactly when
\* provider_id is non-null and already present; in every other case (a null
\* provider_id, a name that already exists) it creates a provider and
\* succeeds; non-null provider_ids stay unique.
C28_AddProvider ==
    [][ /\ \A j, k \in DOMAIN providers' :
              (providers'[j].provider_id = providers'[k].provider_id
                 /\ providers'[j].provider_id # NULL) => j = k
        /\ \A name \in TypedNames \ {""}, id \in TypedProviderIds, c \in TypedConditions :
              AddProviderForm(name, id, c) =>
                 /\ AddProviderEffect(name, OrNone(id), OrNone(c))
                 /\ last'.ret = (providers' # providers)
        /\ \A form \in ProviderForms :
              (ProviderSubmit(form) /\ form.selected_provider = NoSelection
                 /\ FormValid(form)) =>
                 AddProviderEffect(form.provider_name, form.provider_id, NULL) ]_vars

\* C28 witness: two providers named "Proveedor XYZ", one without an id and
\* one with id PROV-001, and an add with that id has just failed.
C28_Witness ==
    /\ last = Call("add_provider", 0, FALSE)
    /\ Len(providers) = 2
    /\ providers[1].name = "Proveedor XYZ" /\ providers[1].provider_id = NULL
    /\ providers[2].name = "Proveedor XYZ" /\ providers[2].provider_id = "PROV-001"

\* C29: whenever a payment request is successfully submitted naming, by
\* free-text entry, a provider that is not in the store, a provider with
\* that name is in the store afterwards.
C29_NewProviderRegistered ==
    [][ \A form \in ProviderForms :
          (ProviderSubmit(form) /\ FormValid(form)
             /\ form.selected_provider = NoSelection
             /\ ~get_provider_by_name(providers, form.provider_name)) =>
             get_provider_by_name(providers', form.provider_name) ]_vars

\* The rows of result are the requests ids, each exactly once.
ReturnsExactly(result, ids) ==
    /\ Len(result) = Cardinality(ids)
    /\ { result[k].id : k \in DOMAIN result } = ids
    /\ \A k \in DOMAIN result : result[k] = Row(result[k].id)

StatusFilters == {NULL} \cup STATUSES

Filtered(status) ==
    IF status = NULL THEN RowIds(payment_requests) ELSE WithStatus(status)

\* C26 as stated: get_payment_requests returns every stored request once
\* without a filter and exactly the requests in the status of the filter
\* otherwise, and a request created later never appears after one created
\* earlier.
C26_NewestFirstByCreation ==
    \A status \in StatusFilters, order \in ResultOrders(payment_requests) :
        LET result == get_payment_requests_where(payment_requests, status, order)
        IN  /\ ReturnsExactly(result, Filtered(status))
            /\ \A j, k \in DOMAIN result : j < k => result[j].id > result[k].id

\* C26 amended: get_payment_requests returns every stored request once
\* without a filter and exactly the requests in the status of the filter
\* otherwise, ordered by created_at descending: a request with a later
\* created_at never appears after one with an earlier created_at; requests
\* created within the same second come in any order.
C26_OrderedByCreatedAt ==
    \A status \in StatusFilters, order \in ResultOrders(payment_requests) :
        LET result == get_payment_requests_where(payment_requests, status, order)
        IN  /\ ReturnsExactly(result, Filtered(status))
            /\ \A j, k \in DOMAIN result :
                  j < k => result[j].created_at >= result[k].created_at

\* C26 witness: an older rejected request and two pendiente requests of the
\* same second; the pendiente filter returns the two, the older of them first
\* in one of the orders.
C26_Witness ==
    /\ Len(payment_requests) = 3
    /\ payment_requests[1].status = "rechazado" /\ payment_requests[1].created_at = 1
    /\ payment_requests[2].status = "pendiente" /\ payment_requests[2].created_at = 2
    /\ payment_requests[3].status = "pendiente" /\ payment_requests[3].created_at = 2
    /\ \E order \in ResultOrders(payment_requests) :
          get_payment_requests_where(payment_requests, "pendiente", order)
             = << payment_requests[2], payment_requests[3] >>

\* Month and year of the calendar's selectors: the month of the stored
\* dates, the month before, and the same month a year earlier.
Selections == { <<11, 2026>>, <<10, 2026>>, <<11, 2025>> }

\* The date of request i, when its agreed_payment_date is ISO text.
DateOf(i) == IsoDates[Row(i).agreed_payment_date]

\* The active requests with a parsable date in the month and year.
MonthIds(month, year) ==
    { i \in DatedActiveIds : DateOf(i)[2] = month /\ DateOf(i)[1] = year }

\* The entries of a dated list are the requests ids, each exactly once.
ListsDated(l, ids) ==
    /\ Len(l) = Cardinality(ids)
    /\ { l[k].p.id : k \in DOMAIN l } = ids
    /\ \A k \in DOMAIN l :
          l[k].p = Row(l[k].p.id) /\ l[k].payment_date = DateOf(l[k].p.id)

RECURSIVE SumDayTotals(_, _)
SumDayTotals(by_date, dates) ==
    IF dates = {} THEN 0
    ELSE LET d == CHOOSE x \in dates : TRUE
         IN  day_cell(by_date, d).total_day + SumDayTotals(by_date, dates \ {d})

\* C21: calendar_view(month, year) contains exactly the pendiente /
\* en_proceso requests whose agreed_payment_date is non-null, parsable and
\* in that month and year; for each date its count and total are the number
\* and the sum of amounts of those requests on that date; the month-wide
\* total equals the sum of the per-date totals.
C21_CalendarView ==
    \A order \in ResultOrders(payment_requests), sel \in Selections :
        LET cv  == calendar_view(payment_requests, order, sel[1], sel[2])
            ids == MonthIds(sel[1], sel[2])
            On(d) == { i \in ids : DateOf(i) = d }
        IN  /\ ListsDated(cv.month_payments, ids)
            /\ DOMAIN cv.payments_by_date = { DateOf(i) : i \in ids }
            /\ \A d \in DOMAIN cv.payments_by_date \cup { <<sel[2], sel[1], 1>> } :
                  /\ day_cell(cv.payments_by_date, d).count = Cardinality(On(d))
                  /\ day_cell(cv.payments_by_date, d).total_day = SumAmounts(On(d))
            /\ cv.total_month = SumDayTotals(cv.payments_by_date, DOMAIN cv.payments_by_date)
            /\ cv.total_month = SumAmounts(ids)

\* C21 witness: requests of 100 (pendiente), 200 (en_proceso) and 200
\* (aprobado_cfo) all due on 5 November 2026: the cell of that day shows
\* count 2 and total 300.
C21_Witness ==
    /\ Len(payment_requests) = 3
    /\ \A i \in 1..3 : payment_requests[i].agreed_payment_date = "2026-11-05"
    /\ payment_requests[1].status = "pendiente" /\ payment_requests[1].amount = 100
    /\ payment_requests[2].status = "en_proceso" /\ payment_requests[2].amount = 200
    /\ payment_requests[3].status = "aprobado_cfo" /\ payment_requests[3].amount = 200
    /\ \E order \in ResultOrders(payment_requests) :
          LET cv == calendar_view(payment_requests, order, 11, 2026)
          IN  /\ day_cell(cv.payments_by_date, <<2026, 11, 5>>)
                   = [ total_day |-> 300, count |-> 2 ]
              /\ cv.total_month = 300

\* days_until of request i on the day today.
DaysUntil(i, today) == toordinal(DateOf(i)) - toordinal(today)

\* The pendiente requests due three days after today.
DueInThree(today) ==
    { i \in DatedActiveIds : Row(i).status = "pendiente" /\ DaysUntil(i, today) = 3 }

\* C22 as stated: a pendiente request whose agreed_payment_date is 3 days
\* after the reference date appears in upcoming(7) with urgency high.
C22_ThreeDaysHigh ==
    \A today \in Todays, order \in ResultOrders(payment_requests) :
        \A i \in DueInThree(today) :
            \E k \in DOMAIN upcoming(payment_requests, order, today) :
                /\ upcoming(payment_requests, order, today)[k].p.id = i
                /\ upcoming(payment_requests, order, today)[k].urgency = "high"

\* C22 amended: a pendiente request whose agreed_payment_date is 3 days
\* after the reference date appears in upcoming(7) with urgency medium.
C22_ThreeDaysMedium ==
    \A today \in Todays, order \in ResultOrders(payment_requests) :
        \A i \in DueInThree(today) :
            \E k \in DOMAIN upcoming(payment_requests, order, today) :
                /\ upcoming(payment_requests, order, today)[k].p.id = i
                /\ upcoming(payment_requests, order, today)[k].days_until = 3
                /\ upcoming(payment_requests, order, today)[k].urgency = "medium"

\* C22 witness: on 2 November a pendiente request due on 5 November is
\* listed among the upcoming payments.
C22_Witness ==
    /\ Len(payment_requests) >= 1
    /\ payment_requests[1].status = "pendiente"
    /\ payment_requests[1].agreed_payment_date = "2026-11-05"
    /\ 1 \in DueInThree(<<2026, 11, 2>>)
    /\ \E order \in ResultOrders(payment_requests) :
          \E k \in DOMAIN upcoming(payment_requests, order, <<2026, 11, 2>>) :
              upcoming(payment_requests, order, <<2026, 11, 2>>)[k].p.id = 1

\* The active requests with a parsable date from today to 7 days later.
UpcomingIds(today) ==
    { i \in DatedActiveIds : 0 <= DaysUntil(i, today) /\ DaysUntil(i, today) <= 7 }

\* C23: upcoming(window_days=7) returns exactly the pendiente / en_proceso
\* requests with a parsable date d such that today <= d <= today + 7, both
\* ends included, sorted ascending by date, each with the urgency of
\* days_until = d - today: high when days_until <= 2, medium when it is 3 or
\* 4, low otherwise.
C23_Upcoming ==
    \A today \in Todays, order \in ResultOrders(payment_requests) :
        LET up == upcoming(payment_requests, order, today)
        IN  /\ ListsDated(up, UpcomingIds(today))
            /\ \A k \in 1..(Len(up) - 1) :
                  DateLE(up[k].payment_date, up[k + 1].payment_date)
            /\ \A k \in DOMAIN up :
                  /\ up[k].days_until = DaysUntil(up[k].p.id, today)
                  /\ up[k].urgency =
                        CASE up[k].days_until <= 2 -> "high"
                          [] up[k].days_until \in {3, 4} -> "medium"
                          [] OTHER -> "low"

\* C23 witness: on 29 October a request due on 5 November (7 days, low)
\* was entered before one due on 2 November (4 days, medium); both are
\* listed, the nearer one first; a day earlier the first is out of the window.
C23_Witness ==
    /\ Len(payment_requests) = 2
    /\ payment_requests[1].agreed_payment_date = "2026-11-05"
    /\ payment_requests[2].agreed_payment_date = "2026-11-02"
    /\ \E order \in ResultOrders(payment_requests) :
          LET up == upcoming(payment_requests, order, <<2026, 10, 29>>)
          IN  /\ Len(up) = 2
              /\ up[1].p.id = 2 /\ up[1].days_until = 4 /\ up[1].urgency = "medium"
              /\ up[2].p.id = 1 /\ up[2].days_until = 7 /\ up[2].urgency = "low"
    /\ \E order \in ResultOrders(payment_requests) :
          LET up == upcoming(payment_requests, order, <<2026, 10, 28>>)
          IN  Len(up) = 1 /\ up[1].p.id = 2 /\ up[1].days_until = 5

\* The dated active requests whose date lies between two day numbers.
DatedWithin(first, last_day) ==
    { i \in DatedActiveIds :
        first <= toordinal(DateOf(i)) /\ toordinal(DateOf(i)) <= last_day }

\* What C24 states of the weekly projection: 8 consecutive buckets of 7
\* days from today, with the count and the total of the requests in each.
WeeklyBuckets(today, dated) ==
    /\ week_start(today, 0) = toordinal(today)
    /\ \A i \in 0..(Weeks - 1) : week_end(today, i) - week_start(today, i) = 6
    /\ \A i \in 0..(Weeks - 2) : week_start(today, i + 1) = week_end(today, i) + 1
    /\ \A i \in 0..(Weeks - 1) :
          /\ ListsDated(week_payments(dated, today, i),
                        DatedWithin(week_start(today, i), week_end(today, i)))
          /\ \A k \in DOMAIN week_payments(dated, today, i) :
                toordinal(week_payments(dated, today, i)[k].payment_date) >= toordinal(today)
          /\ weeks_data(dated, today)[i + 1].Pagos =
                Cardinality(DatedWithin(week_start(today, i), week_end(today, i)))
          /\ weeks_data(dated, today)[i + 1].Monto =
                SumAmounts(DatedWithin(week_start(today, i), week_end(today, i)))

\* What C24 states of the monthly projection, but for the dates before
\* today: 6 consecutive calendar months, with the count and the total of
\* the requests in each.
MonthlyBuckets(today, dated) ==
    /\ toordinal(month_start(today, 0)) <= toordinal(today)
    /\ toordinal(today) <= month_end(today, 0)
    /\ \A i \in 0..(Months - 1) :
          /\ month_start(today, i)[3] = 1
          /\ month_end(today, i) - toordinal(month_start(today, i)) + 1
                = DaysInMonth(month_start(today, i)[1], month_start(today, i)[2])
    /\ \A i \in 0..(Months - 2) :
          toordinal(month_start(today, i + 1)) = month_end(today, i) + 1
    /\ \A i \in 0..(Months - 1) :
          /\ ListsDated(month_bucket_payments(dated, today, i),
                        DatedWithin(toordinal(month_start(today, i)), month_end(today, i)))
          /\ months_data(dated, today)[i + 1].Pagos =
                Cardinality(DatedWithin(toordinal(month_start(today, i)), month_end(today, i)))
          /\ months_data(dated, today)[i + 1].Monto =
                SumAmounts(DatedWithin(toordinal(month_start(today, i)), month_end(today, i)))

\* No payment of a monthly bucket is dated before today.
MonthlyFromToday(today, dated) ==
    \A i \in 0..(Months - 1) :
        \A k \in DOMAIN month_bucket_payments(dated, today, i) :
            toordinal(month_bucket_payments(dated, today, i)[k].payment_date)
               >= toordinal(today)

\* C24: cashflow_projection partitions the date axis into consecutive,
\* pairwise disjoint buckets that start at today (8 buckets of 7 days for
\* unit = week, 6 calendar-month buckets for unit = month): no date before
\* today falls in any bucket, every dated active request is counted in at
\* most one bucket, and each bucket's total and count are the sum and the
\* number of the pendiente / en_proceso requests whose date lies in it.
C24_CashflowBuckets ==
    \A today \in Todays, order \in ResultOrders(payment_requests) :
        \A dated \in { cashflow_with_date(payment_requests, order) } :
            /\ WeeklyBuckets(today, dated)
            /\ MonthlyBuckets(today, dated)
            /\ MonthlyFromToday(today, dated)

\* The active requests whose agreed_payment_date is null or does not parse.
UndatedActiveIds ==
    { i \in RowIds(payment_requests) :
        /\ Row(i).status \in {"pendiente", "en_proceso"}
        /\ Row(i).agreed_payment_date \notin DOMAIN IsoDates }

\* The ids of the requests of a dated list.
DatedIds(l) == { l[k].p.id : k \in DOMAIN l }

\* C25: an active request whose agreed_payment_date is null or unparsable
\* is excluded from calendar_view, from upcoming, from every cashflow bucket
\* and from the cumulative cashflow, and its amount is included in the
\* cashflow projection's unscheduled total.
C25_UndatedExcluded ==
    UndatedActiveIds # {} =>
      \A order \in ResultOrders(payment_requests) :
        \A dated \in { cashflow_with_date(payment_requests, order) },
           undated \in { cashflow_without_date(payment_requests, order) } :
          /\ \A sel \in Selections :
                \A cv \in { calendar_view(payment_requests, order, sel[1], sel[2]) } :
                   /\ DatedIds(cv.month_payments) \cap UndatedActiveIds = {}
                   /\ \A d \in DOMAIN cv.payments_by_date :
                         DatedIds(cv.payments_by_date[d]) \cap UndatedActiveIds = {}
          /\ \A today \in Todays :
                /\ DatedIds(upcoming(payment_requests, order, today))
                      \cap UndatedActiveIds = {}
                /\ \A i \in 0..(Weeks - 1) :
                      DatedIds(week_payments(dated, today, i)) \cap UndatedActiveIds = {}
                /\ \A i \in 0..(Months - 1) :
                      DatedIds(month_bucket_payments(dated, today, i))
                         \cap UndatedActiveIds = {}
          /\ DatedIds(sorted_by_date(dated)) \cap UndatedActiveIds = {}
          /\ Len(cumulative_data(payment_requests, order)) = Len(dated)
          /\ { undated[k].id : k \in DOMAIN undated } = UndatedActiveIds
          /\ Len(undated) = Cardinality(UndatedActiveIds)
          /\ total_unscheduled(payment_requests, order) = SumAmounts(UndatedActiveIds)

\* C25 witness: the legacy request with an unparsable date (100,
\* pendiente), a request of 200 without a date (en_proceso) and a dated one:
\* the unscheduled total is 300.
C25_Witness ==
    /\ Len(payment_requests) = 3
    /\ payment_requests[1].agreed_payment_date = LegacyDate
    /\ payment_requests[1].status = "pendiente"
    /\ payment_requests[2].agreed_payment_date = NULL
    /\ payment_requests[2].status = "en_proceso" /\ payment_requests[2].amount = 200
    /\ payment_requests[3].agreed_payment_date = "2026-11-05"
    /\ payment_requests[3].status = "pendiente"
    /\ UndatedActiveIds = {1, 2}
    /\ \E order \in ResultOrders(payment_requests) :
          /\ total_unscheduled(payment_requests, order) = 300
          /\ Len(cumulative_data(payment_requests, order)) = 1

\* The status history of a request that has reached the status along the
\* edges from pendiente.
HistoryOf(status) ==
    CASE status = "pendiente"    -> << "pendiente" >>
      [] status = "aprobado_cfo" -> << "pendiente", "aprobado_cfo" >>
      [] status = "en_proceso"   -> << "pendiente", "aprobado_cfo", "en_proceso" >>
      [] status = "completado"   -> << "pendiente", "aprobado_cfo", "en_proceso", "completado" >>
      [] status = "rechazado"    -> << "pendiente", "rechazado" >>

\* C31: with a single session that acts on what it has just read, approve
\* and reject are offered only for pendiente, advance only for aprobado_cfo
\* and complete only for en_proceso; a request starts as pendiente and every
\* change of its status extends its history by the new status within
\* pendiente, aprobado_cfo, en_proceso, completado or pendiente, rechazado,
\* so the history is a prefix of one of the two and has at most three
\* changes.
C31_SoloLifecycle ==
    [][ /\ \A i \in 1..MaxSoloRows :
              /\ (SoloApprove(i) \/ SoloReject(i)) => Row(i).status = "pendiente"
              /\ SoloAdvance(i) => Row(i).status = "aprobado_cfo"
              /\ SoloComplete(i) => Row(i).status = "en_proceso"
        /\ \A i \in RowIds(payment_requests') \ RowIds(payment_requests) :
              payment_requests'[i].status = "pendiente"
        /\ \A i \in RowIds(payment_requests) :
              /\ i \in RowIds(payment_requests')
              /\ \/ payment_requests'[i].status = Row(i).status
                 \/ HistoryOf(payment_requests'[i].status)
                       = Append(HistoryOf(Row(i).status), payment_requests'[i].status)
              /\ Len(HistoryOf(payment_requests'[i].status)) - 1 <= 3 ]_vars

\* C31 witness: request 1 has gone all the way to completado, request 2 was
\* rejected, and notes have just been saved on request 1.
C31_Witness ==
    /\ Len(payment_requests) = 2
    /\ payment_requests[1].status = "completado"
    /\ payment_requests[1].completed_at # NoTime
    /\ payment_requests[2].status = "rechazado"
    /\ last = Call("annotate", 1, TRUE)

\* The creation fields of a row.
CreationFields(row) ==
    << row.id, row.provider_name, row.amount, row.payment_type, row.payment_method,
       row.agreed_payment_date, row.requested_by, row.created_at >>

\* A lifecycle operation of the admin view on request i.
LifecycleStep(i) ==
    \/ SoloApprove(i) \/ SoloReject(i) \/ SoloAdvance(i) \/ SoloComplete(i)
    \/ \E t \in NoteTexts : SoloSaveNotes(i, t)

\* C32: no operation removes a payment request; every lifecycle operation
\* on request X leaves every other request unchanged and leaves X's creation
\* fields unchanged; every id returned by create stays retrievable by
\* get_payment_request.
C32_FrameAndPermanence ==
    [][ /\ Len(payment_requests') >= Len(payment_requests)
        /\ \A i \in RowIds(payment_requests) :
              /\ get_payment_request(payment_requests', i) # NoRow
              /\ get_payment_request(payment_requests', i).id = i
              /\ CreationFields(payment_requests'[i]) = CreationFields(Row(i))
        /\ \A i \in 1..MaxSoloRows :
              LifecycleStep(i) =>
                 /\ Len(payment_requests') = Len(payment_requests)
                 /\ \A j \in RowIds(payment_requests) \ {i} :
                       payment_requests'[j] = Row(j) ]_vars

\* C32 witness: request 1 was approved, annotated, advanced and has just
\* been completed at a later time, while request 2 is as it was created.
C32_Witness ==
    /\ Len(payment_requests) = 2
    /\ last = Call("complete", 1, TRUE)
    /\ payment_requests[1].admin_notes = "ok"
    /\ payment_requests[1].updated_at > payment_requests[1].created_at
    /\ payment_requests[2].status = "pendiente"
    /\ payment_requests[2].updated_at = payment_requests[2].created_at
    /\ get_payment_request(payment_requests, 2) = payment_requests[2]

\* The ids of a list of rows.
IdsOf(rows) == { rows[k].id : k \in DOMAIN rows }

\* C33: in the cashflow view every active request is in exactly one of the
\* dated list and the undated list, so total pending = scheduled total +
\* unscheduled total and the number of active payments = number dated +
\* number undated, in every reachable state of the store.
C33_CashflowPartition ==
    \A order \in ResultOrders(payment_requests) :
        \A active  \in { active_payments(all_requests(payment_requests, order)) },
           dated   \in { cashflow_with_date(payment_requests, order) },
           undated \in { cashflow_without_date(payment_requests, order) } :
            /\ DatedIds(dated) \cap IdsOf(undated) = {}
            /\ DatedIds(dated) \cup IdsOf(undated) = IdsOf(active)
            /\ IdsOf(active) = DatedActiveIds \cup UndatedActiveIds
            /\ Len(active) = Cardinality(IdsOf(active))
            /\ Len(active) = Len(dated) + Len(undated)
            /\ total_pending(payment_requests, order)
                  = total_scheduled(payment_requests, order)
                      + total_unscheduled(payment_requests, order)

\* C33 witness: the legacy request with an unparsable date (100,
\* pendiente), a dated request of 200 in en_proceso and a completed request:
\* 300 pending = 200 scheduled + 100 unscheduled, 2 active = 1 + 1.
C33_Witness ==
    /\ Len(payment_requests) = 3
    /\ payment_requests[1].agreed_payment_date = LegacyDate
    /\ payment_requests[1].status = "pendiente"
    /\ payment_requests[2].agreed_payment_date = "2026-11-02"
    /\ payment_requests[2].status = "en_proceso" /\ payment_requests[2].amount = 200
    /\ payment_requests[3].status = "completado"
    /\ \E order \in ResultOrders(payment_requests) :
          /\ total_pending(payment_requests, order) = 300
          /\ total_scheduled(payment_requests, order) = 200
          /\ total_unscheduled(payment_requests, order) = 100
          /\ Len(cashflow_with_date(payment_requests, order)) = 1
          /\ Len(cashflow_without_date(payment_requests, order)) = 1
====
